---------------------------- MODULE Spec2Model ----------------------------
(* A model of flannel's subnet package: the network configuration         *)
(* validator (ParseConfig), the subnet key codec (MakeSubnetKey and        *)
(* ParseSubnetKey), the address arithmetic of pkg/ip, and the lease        *)
(* manager contract.                                                       *)
(*                                                                         *)
(* Representation.  A net.IP and a net.IPMask are sequences of bytes       *)
(* (0..255), most significant first; the nil slice is the empty sequence.  *)
(* A big.Int is a record [neg, abs] whose abs is the big-endian magnitude  *)
(* without leading zero bytes, as big.Int.Bytes returns it.  A Go string   *)
(* is a sequence of one-character strings.                                 *)
EXTENDS Integers, Sequences, FiniteSets, TLC

VARIABLES
    pc,        \* ParseConfig: the stage the call is at
    in,        \* ParseConfig: the decoded document the call was given
    cfg,       \* ParseConfig: the Config being built (cfg := new(Config))
    err,       \* ParseConfig: the error returned, "" while there is none
    cpc,       \* codec: the step the run is at
    snA, snB,  \* codec: two subnets
    keyA, keyB,\* codec: their keys, MakeSubnetKey(snA), MakeSubnetKey(snB)
    str,       \* codec: the string last given to ParseSubnetKey
    parsed,    \* codec: what ParseSubnetKey returned for str
    leases,    \* lease manager: the backing store's live leases
    agent,     \* lease manager: each agent's call state
    clock      \* lease manager: the backend's sequence number (Asof)

vars == <<pc, in, cfg, err, cpc, snA, snB, keyA, keyB, str, parsed,
          leases, agent, clock>>
cfgVars == <<pc, in, cfg, err>>
codecVars == <<cpc, snA, snB, keyA, keyB, str, parsed>>
leaseVars == <<leases, agent, clock>>

-----------------------------------------------------------------------------
(* Byte and bit helpers.                                                   *)

RECURSIVE Pow2(_)
Pow2(n) == IF n = 0 THEN 1 ELSE 2 * Pow2(n - 1)

RECURSIVE BitAnd(_, _)
BitAnd(a, b) ==
    IF a = 0 \/ b = 0 THEN 0
    ELSE 2 * BitAnd(a \div 2, b \div 2) + (a % 2) * (b % 2)

RECURSIVE BitOr(_, _)
BitOr(a, b) ==
    IF a = 0 THEN b
    ELSE IF b = 0 THEN a
    ELSE 2 * BitOr(a \div 2, b \div 2) + (IF a % 2 = 1 \/ b % 2 = 1 THEN 1 ELSE 0)

Zeros(n) == [i \in 1..n |-> 0]

\* The bytes of b without its leading zero bytes.
RECURSIVE StripZeros(_)
StripZeros(b) ==
    IF b = <<>> THEN <<>>
    ELSE IF b[1] = 0 THEN StripZeros(Tail(b))
    ELSE b

\* b padded on the left with zero bytes to n bytes (n >= Len(b)).
PadLeft(b, n) == Zeros(n - Len(b)) \o b

\* Comparison of two byte strings of the same length: -1, 0 or 1.
RECURSIVE CmpBytes(_, _)
CmpBytes(a, b) ==
    IF a = <<>> THEN 0
    ELSE IF a[1] < b[1] THEN -1
    ELSE IF a[1] > b[1] THEN 1
    ELSE CmpBytes(Tail(a), Tail(b))

-----------------------------------------------------------------------------
(* math/big, as far as pkg/ip and ParseConfig use it.                      *)

\* new(big.Int).SetBytes(b)
SetBytes(b) == [neg |-> FALSE, abs |-> StripZeros(b)]

\* Magnitudes compared as numbers: -1, 0 or 1.
CmpAbs(a, b) ==
    LET n == IF Len(a) > Len(b) THEN Len(a) ELSE Len(b)
    IN  CmpBytes(PadLeft(a, n), PadLeft(b, n))

RECURSIVE AddFrom(_, _, _, _)
AddFrom(a, b, i, carry) ==
    IF i = 0 THEN <<carry>>
    ELSE LET s == a[i] + b[i] + carry
         IN  Append(AddFrom(a, b, i - 1, s \div 256), s % 256)

\* The magnitude a + b.
AddAbs(a, b) ==
    LET n == IF Len(a) > Len(b) THEN Len(a) ELSE Len(b)
    IN  StripZeros(AddFrom(PadLeft(a, n), PadLeft(b, n), n, 0))

RECURSIVE SubFrom(_, _, _, _)
SubFrom(a, b, i, borrow) ==
    IF i = 0 THEN <<>>
    ELSE LET d == a[i] - b[i] - borrow
         IN  IF d < 0 THEN Append(SubFrom(a, b, i - 1, 1), d + 256)
             ELSE Append(SubFrom(a, b, i - 1, 0), d)

\* The magnitude a - b, for a >= b.
SubAbs(a, b) ==
    LET n == IF Len(a) > Len(b) THEN Len(a) ELSE Len(b)
    IN  StripZeros(SubFrom(PadLeft(a, n), PadLeft(b, n), n, 0))

\* x.Add(x, y) for y >= 0
BigAdd(x, y) ==
    IF ~x.neg THEN [neg |-> FALSE, abs |-> AddAbs(x.abs, y.abs)]
    ELSE IF CmpAbs(y.abs, x.abs) >= 0
         THEN [neg |-> FALSE, abs |-> SubAbs(y.abs, x.abs)]
         ELSE [neg |-> TRUE, abs |-> SubAbs(x.abs, y.abs)]

\* x.Sub(x, y) for x >= 0 and y >= 0
BigSub(x, y) ==
    IF CmpAbs(x.abs, y.abs) >= 0
    THEN [neg |-> FALSE, abs |-> SubAbs(x.abs, y.abs)]
    ELSE [neg |-> TRUE, abs |-> SubAbs(y.abs, x.abs)]

\* new(big.Int).Lsh(big.NewInt(1), n)
Lsh1(n) == [neg |-> FALSE, abs |-> <<Pow2(n % 8)>> \o Zeros(n \div 8)]

\* x.Bytes(): the magnitude; the sign is dropped.
BigBytes(x) == x.abs

-----------------------------------------------------------------------------
(* net.IP, net.IPMask and net.IPNet, as far as the package uses them.      *)

v4InV6Prefix == <<0, 0, 0, 0, 0, 0, 0, 0, 0, 0, 255, 255>>
\* net.IPv4zero = net.IPv4(0, 0, 0, 0), which is in 16-byte form
IPv4zero == v4InV6Prefix \o <<0, 0, 0, 0>>
IPv6zero == Zeros(16)

\* ip.To4(): the 4-byte form, or nil
To4(ip) ==
    IF Len(ip) = 4 THEN ip
    ELSE IF Len(ip) = 16 /\ SubSeq(ip, 1, 12) = v4InV6Prefix THEN SubSeq(ip, 13, 16)
    ELSE <<>>

\* ip.To16(): the 16-byte form, or nil
To16(ip) ==
    IF Len(ip) = 4 THEN v4InV6Prefix \o ip
    ELSE IF Len(ip) = 16 THEN ip
    ELSE <<>>

\* ip.Equal(x)
IPEqual(ip, x) ==
    IF Len(ip) = Len(x) THEN ip = x
    ELSE IF Len(ip) = 4 /\ Len(x) = 16
         THEN SubSeq(x, 1, 12) = v4InV6Prefix /\ ip = SubSeq(x, 13, 16)
    ELSE IF Len(ip) = 16 /\ Len(x) = 4
         THEN SubSeq(ip, 1, 12) = v4InV6Prefix /\ SubSeq(ip, 13, 16) = x
    ELSE FALSE

\* net.CIDRMask(ones, bits)
CIDRMask(ones, bits) ==
    [i \in 1..(bits \div 8) |->
        LET k == ones - 8 * (i - 1)
        IN  IF k >= 8 THEN 255 ELSE IF k <= 0 THEN 0 ELSE 256 - Pow2(8 - k)]

\* The leading one bits of a byte, or -1 when a one follows a zero.
RECURSIVE LeadOnes(_)
LeadOnes(b) ==
    IF b = 0 THEN 0
    ELSE IF b >= 128
         THEN LET r == LeadOnes((b * 2) % 256) IN IF r < 0 THEN -1 ELSE r + 1
    ELSE -1

\* net's simpleMaskLength: the number of leading ones of a canonical mask, else -1
RECURSIVE simpleMaskLength(_)
simpleMaskLength(m) ==
    IF m = <<>> THEN 0
    ELSE IF m[1] = 255
         THEN LET r == simpleMaskLength(Tail(m)) IN IF r < 0 THEN -1 ELSE 8 + r
    ELSE IF LeadOnes(m[1]) < 0 \/ Tail(m) # Zeros(Len(m) - 1) THEN -1
    ELSE LeadOnes(m[1])

\* m.Size(): (ones, bits), (0, 0) for a mask that is not canonical
MaskSize(m) ==
    IF simpleMaskLength(m) < 0 THEN [ones |-> 0, bits |-> 0]
    ELSE [ones |-> simpleMaskLength(m), bits |-> 8 * Len(m)]

\* ip.Mask(mask) for an ip and a mask of the same length
MaskIP(ip, m) == [i \in 1..Len(ip) |-> BitAnd(ip[i], m[i])]

\* net's networkNumberAndMask(n); ip is nil when the pair is unusable
networkNumberAndMask(n) ==
    LET ip4 == To4(n.IP)
        ip  == IF ip4 # <<>> THEN ip4 ELSE n.IP
    IN  IF ip4 = <<>> /\ Len(n.IP) # 16 THEN [ip |-> <<>>, m |-> <<>>]
        ELSE IF Len(n.Mask) = 4
             THEN IF Len(ip) # 4 THEN [ip |-> <<>>, m |-> <<>>]
                  ELSE [ip |-> ip, m |-> n.Mask]
        ELSE IF Len(n.Mask) = 16
             THEN IF Len(ip) = 4 THEN [ip |-> ip, m |-> SubSeq(n.Mask, 13, 16)]
                  ELSE [ip |-> ip, m |-> n.Mask]
        ELSE [ip |-> <<>>, m |-> <<>>]

\* n.Contains(ip)
Contains(n, ip) ==
    LET nm == networkNumberAndMask(n)
        x  == IF To4(ip) # <<>> THEN To4(ip) ELSE ip
    IN  /\ Len(x) = Len(nm.ip)
        /\ \A i \in 1..Len(x) : BitAnd(nm.ip[i], nm.m[i]) = BitAnd(x[i], nm.m[i])


-----------------------------------------------------------------------------
(* pkg/ip.                                                                 *)

ProtocolIPv4 == "ipv4"
ProtocolIPv6 == "ipv6"

ProtocolByIPNet(ipn) == IF To4(ipn.IP) # <<>> THEN ProtocolIPv4 ELSE ProtocolIPv6

PrefixLenByIPNet(ipn) == MaskSize(ipn.Mask).ones

\* NextNIP and PreviousNIP end in append(make([]byte, len(ip)-len(b)), b...),
\* which panics when the result has more bytes than ip.
NextNIPPanics(ip, n) == Len(BigBytes(BigAdd(SetBytes(ip), n))) > Len(ip)

NextNIP(ip, n) == PadLeft(BigBytes(BigAdd(SetBytes(ip), n)), Len(ip))

PreviousNIPPanics(ip, n) == Len(BigBytes(BigSub(SetBytes(ip), n))) > Len(ip)

PreviousNIP(ip, n) == PadLeft(BigBytes(BigSub(SetBytes(ip), n)), Len(ip))

\* ipToInt panics for a length other than 4 and 16; the model gives it no such ip.
ipToInt(ip) == [val |-> SetBytes(ip), bits |-> 8 * Len(ip)]

\* intToIP packs the bytes of ipInt into the end of a slice of bits/8 bytes.
intToIP(ipInt, bits) == PadLeft(BigBytes(ipInt), bits \div 8)

\* lastIPInt = ((1 << hostLen) - 1) | firstIPInt, on the big-endian bytes
OrHostBits(first, hostLen, bits) ==
    LET n    == bits \div 8
        a    == PadLeft(first.abs, n)
        ones == PadLeft(BigBytes(BigSub(Lsh1(hostLen), SetBytes(<<1>>))), n)
    IN  [neg |-> FALSE, abs |-> StripZeros([i \in 1..n |-> BitOr(a[i], ones[i])])]

CIDRLastIP(ipn) ==
    LET sz == MaskSize(ipn.Mask)
    IN  IF sz.ones = sz.bits THEN ipn.IP
        ELSE LET f == ipToInt(ipn.IP)
             IN  intToIP(OrHostBits(f.val, f.bits - sz.ones, f.bits), f.bits)

-----------------------------------------------------------------------------
(* ParseConfig.  The document is modelled as json.Unmarshal leaves it in   *)
(* cfg: Network a net.IPNet, SubnetMin and SubnetMax a net.IP (nil when    *)
(* the field is absent, 16 bytes when it was written, as net.ParseIP       *)
(* returns it), SubnetLen a uint (0 when absent) and Backend the raw       *)
(* payload.  A payload is [kind, Type]: "absent" (len(be) = 0), "object"   *)
(* (a JSON object whose Type is the string Type, "" without the field),    *)
(* "null", "badtype" (an object whose Type is not a string) and            *)
(* "nonobject" (an array, a number, a string).                             *)

ErrSubnetLenMax4 == "SubnetLen must be less than /31"
ErrSubnetLenMax6 == "SubnetLen must be less than /127"
ErrFourSubnets   == "Network must be able to accommodate at least four subnets"
ErrTooSmall4     == "Network is too small. Minimum useful network prefix is /28"
ErrTooSmall6     == "Network is too small. Minimum useful network prefix is /124"
ErrMinRange      == "SubnetMin is not in the range of the Network"
ErrMaxRange      == "SubnetMax is not in the range of the Network"
ErrMinBoundary   == "SubnetMin is not on a SubnetLen boundary"
ErrMaxBoundary   == "SubnetMax is not on a SubnetLen boundary"
ErrBackend       == "error decoding Backend property of config"
Panic            == "panic: makeslice: len out of range"

\* json.Unmarshal(be, &bt) for bt struct{ Type string }: whether it fails
UnmarshalFails(be) == be.kind \in {"badtype", "nonobject"}

parseBackendTypeDefaulting(be) ==
    IF be.kind = "absent" \/ UnmarshalFails(be) THEN [bt |-> "udp", err |-> ""]
    ELSE [bt |-> be.Type, err |-> ""]

parseBackendType(be) ==
    IF be.kind = "absent" THEN [bt |-> "udp", err |-> ""]
    ELSE IF UnmarshalFails(be) THEN [bt |-> "", err |-> ErrBackend]
    ELSE [bt |-> be.Type, err |-> ""]

\* Lines 60-87 with the /24 threshold moved from 22 to 23.
SubnetLenIPv4Threshold(c) ==
    IF c.SubnetLen > 0
    THEN IF c.SubnetLen > 30 THEN [err |-> ErrSubnetLenMax4, len |-> c.SubnetLen]
         ELSE IF c.SubnetLen < PrefixLenByIPNet(c.Network) + 2
              THEN [err |-> ErrFourSubnets, len |-> c.SubnetLen]
         ELSE [err |-> "", len |-> c.SubnetLen]
    ELSE IF PrefixLenByIPNet(c.Network) > 28 THEN [err |-> ErrTooSmall4, len |-> 0]
         ELSE IF PrefixLenByIPNet(c.Network) <= 23 THEN [err |-> "", len |-> 24]
         ELSE [err |-> "", len |-> PrefixLenByIPNet(c.Network) + 2]

\* Lines 60-87 without the SubnetLen > 30 check.
SubnetLenIPv4NoMax(c) ==
    IF c.SubnetLen > 0
    THEN IF c.SubnetLen < PrefixLenByIPNet(c.Network) + 2
         THEN [err |-> ErrFourSubnets, len |-> c.SubnetLen]
         ELSE [err |-> "", len |-> c.SubnetLen]
    ELSE IF PrefixLenByIPNet(c.Network) > 28 THEN [err |-> ErrTooSmall4, len |-> 0]
         ELSE IF PrefixLenByIPNet(c.Network) <= 22 THEN [err |-> "", len |-> 24]
         ELSE [err |-> "", len |-> PrefixLenByIPNet(c.Network) + 2]

\* SubnetLen resolution of the IPv4 branch: the error, or the SubnetLen
SubnetLenIPv4(c) ==
    IF c.SubnetLen > 0
    THEN IF c.SubnetLen > 30 THEN [err |-> ErrSubnetLenMax4, len |-> c.SubnetLen]
         ELSE IF c.SubnetLen < PrefixLenByIPNet(c.Network) + 2
              THEN [err |-> ErrFourSubnets, len |-> c.SubnetLen]
         ELSE [err |-> "", len |-> c.SubnetLen]
    ELSE IF PrefixLenByIPNet(c.Network) > 28 THEN [err |-> ErrTooSmall4, len |-> 0]
         ELSE IF PrefixLenByIPNet(c.Network) <= 22 THEN [err |-> "", len |-> 24]
         ELSE [err |-> "", len |-> PrefixLenByIPNet(c.Network) + 2]

\* SubnetLen resolution of the IPv6 branch
SubnetLenIPv6(c) ==
    IF c.SubnetLen > 0
    THEN IF c.SubnetLen > 126 THEN [err |-> ErrSubnetLenMax6, len |-> c.SubnetLen]
         ELSE IF c.SubnetLen < PrefixLenByIPNet(c.Network) + 2
              THEN [err |-> ErrFourSubnets, len |-> c.SubnetLen]
         ELSE [err |-> "", len |-> c.SubnetLen]
    ELSE IF PrefixLenByIPNet(c.Network) > 124 THEN [err |-> ErrTooSmall6, len |-> 0]
         ELSE IF PrefixLenByIPNet(c.Network) <= 118 THEN [err |-> "", len |-> 120]
         ELSE [err |-> "", len |-> PrefixLenByIPNet(c.Network) + 2]

\* The range bounds of either branch, which differ in the address width
\* (bits) and the zero address (zero) only: the error, or SubnetMin and
\* SubnetMax as the branch leaves them.
RangeBounds(c, bits, zero) ==
    LET subnetSize == Lsh1(bits - c.SubnetLen)
        minDefault == IPEqual(c.SubnetMin, zero)
        maxDefault == IPEqual(c.SubnetMax, zero)
        min == IF minDefault THEN NextNIP(c.Network.IP, subnetSize) ELSE c.SubnetMin
        max == IF maxDefault THEN PreviousNIP(c.Network.IP, subnetSize) ELSE c.SubnetMax
        out(e) == [err |-> e, min |-> min, max |-> max]
    IN  IF minDefault /\ NextNIPPanics(c.Network.IP, subnetSize) THEN out(Panic)
        ELSE IF ~minDefault /\ ~Contains(c.Network, c.SubnetMin) THEN out(ErrMinRange)
        ELSE IF maxDefault /\ PreviousNIPPanics(c.Network.IP, subnetSize) THEN out(Panic)
        ELSE IF ~maxDefault /\ ~Contains(c.Network, c.SubnetMax) THEN out(ErrMaxRange)
        ELSE IF ~Contains(c.Network, min) THEN out(ErrMinBoundary)
        ELSE IF ~Contains(c.Network, max) THEN out(ErrMaxBoundary)
        ELSE out("")

\* Lines 89-104 without the re-validation of lines 106-113.
RangeBoundsIPv4NoRecheck(c) ==
    LET subnetSize == Lsh1(32 - c.SubnetLen)
        minDefault == IPEqual(c.SubnetMin, IPv4zero)
        maxDefault == IPEqual(c.SubnetMax, IPv4zero)
        min == IF minDefault THEN NextNIP(c.Network.IP, subnetSize) ELSE c.SubnetMin
        max == IF maxDefault THEN PreviousNIP(c.Network.IP, subnetSize) ELSE c.SubnetMax
        out(e) == [err |-> e, min |-> min, max |-> max]
    IN  IF minDefault /\ NextNIPPanics(c.Network.IP, subnetSize) THEN out(Panic)
        ELSE IF ~minDefault /\ ~Contains(c.Network, c.SubnetMin) THEN out(ErrMinRange)
        ELSE IF maxDefault /\ PreviousNIPPanics(c.Network.IP, subnetSize) THEN out(Panic)
        ELSE IF ~maxDefault /\ ~Contains(c.Network, c.SubnetMax) THEN out(ErrMaxRange)
        ELSE out("")

RangeBoundsIPv4(c) == RangeBounds(c, 32, IPv4zero)

RangeBoundsIPv6(c) == RangeBounds(c, 128, IPv6zero)


-----------------------------------------------------------------------------
(* Strings: sequences of one-character strings, ordered as Go orders       *)
(* strings, byte by byte.                                                  *)

DigitChars == <<"0", "1", "2", "3", "4", "5", "6", "7", "8", "9">>
HexChars == DigitChars \o <<"a", "b", "c", "d", "e", "f">>
UpperHex == <<"A", "B", "C", "D", "E", "F">>
\* The characters the model's strings are written in, in ASCII order.
Ascii ==
    <<"-", ".", "/">> \o DigitChars \o <<":">> \o UpperHex \o <<"_">> \o
    <<"a", "b", "c", "d", "e", "f", "n", "s", "t", "u", "x">>

Ord(c) == CHOOSE i \in DOMAIN Ascii : Ascii[i] = c

IsDigit(c) == \E i \in DOMAIN DigitChars : DigitChars[i] = c
DigitVal(c) == (CHOOSE i \in DOMAIN DigitChars : DigitChars[i] = c) - 1
IsHex(c) ==
    \/ \E i \in DOMAIN HexChars : HexChars[i] = c
    \/ \E i \in DOMAIN UpperHex : UpperHex[i] = c
HexVal(c) ==
    IF \E i \in DOMAIN HexChars : HexChars[i] = c
    THEN (CHOOSE i \in DOMAIN HexChars : HexChars[i] = c) - 1
    ELSE (CHOOSE i \in DOMAIN UpperHex : UpperHex[i] = c) + 9
\* \w of the regular expressions: [0-9A-Za-z_]
IsWord(c) == c \notin {"-", ".", "/", ":"}

\* a < b for Go strings
RECURSIVE StrLess(_, _)
StrLess(a, b) ==
    IF b = <<>> THEN FALSE
    ELSE IF a = <<>> THEN TRUE
    ELSE IF a[1] # b[1] THEN Ord(a[1]) < Ord(b[1])
    ELSE StrLess(Tail(a), Tail(b))

\* fmt's %d of a number >= 0
RECURSIVE Itoa(_)
Itoa(n) ==
    IF n < 10 THEN <<DigitChars[n + 1]>>
    ELSE Itoa(n \div 10) \o <<DigitChars[(n % 10) + 1]>>

\* hex.Encode of one byte: two lower-case digits
HexByte(b) == <<HexChars[(b \div 16) + 1], HexChars[(b % 16) + 1]>>

\* %x of a 16-bit group: no leading zeros
RECURSIVE HexShort(_)
HexShort(n) ==
    IF n < 16 THEN <<HexChars[n + 1]>>
    ELSE HexShort(n \div 16) \o <<HexChars[(n % 16) + 1]>>

\* strings.ReplaceAll(s, old, new) for one-character old and new
ReplaceAll(s, old, new) == [i \in 1..Len(s) |-> IF s[i] = old THEN new ELSE s[i]]

-----------------------------------------------------------------------------
(* The subnet key codec.                                                   *)

\* ip.String() of an address whose To4() is not nil: dotted decimal
DottedString(ip4) ==
    Itoa(ip4[1]) \o <<".">> \o Itoa(ip4[2]) \o <<".">> \o Itoa(ip4[3]) \o <<".">> \o Itoa(ip4[4])

\* IPExpand writing each group as %x would: without its leading zeros.
IPExpandUnpadded(ip) ==
    IF To4(ip) # <<>> THEN DottedString(To4(ip))
    ELSE LET g(i) == HexShort(256 * ip[2 * i - 1] + ip[2 * i])
         IN  g(1) \o <<":">> \o g(2) \o <<":">> \o g(3) \o <<":">> \o g(4) \o <<":">> \o
             g(5) \o <<":">> \o g(6) \o <<":">> \o g(7) \o <<":">> \o g(8)

IPExpand(ip) ==
    IF To4(ip) # <<>> THEN DottedString(To4(ip))
    ELSE LET g(i) == HexByte(ip[2 * i - 1]) \o HexByte(ip[2 * i])
         IN  g(1) \o <<":">> \o g(2) \o <<":">> \o g(3) \o <<":">> \o g(4) \o <<":">> \o
             g(5) \o <<":">> \o g(6) \o <<":">> \o g(7) \o <<":">> \o g(8)

IPNetExpand(ipn) == IPExpand(ipn.IP) \o <<"/">> \o Itoa(MaskSize(ipn.Mask).ones)

MakeSubnetKey(sn) == ReplaceAll(IPNetExpand(sn), "/", "-")

\* The character classes of the two regular expressions: \d and \w.
InClass(cls, c) == IF cls = "d" THEN IsDigit(c) ELSE IsWord(c)

\* The index after the longest run of characters of class cls that starts
\* at i (i itself when there is none).
RECURSIVE RunEnd(_, _, _)
RunEnd(s, i, cls) ==
    IF i <= Len(s) /\ InClass(cls, s[i]) THEN RunEnd(s, i + 1, cls) ELSE i

\* n groups cls+ separated by sep, from index i: the index after them, or 0.
\* Neither separator is in a class, so a greedy group has one way to match.
RECURSIVE Groups(_, _, _, _, _)
Groups(s, i, n, sep, cls) ==
    LET e == RunEnd(s, i, cls)
    IN  IF e = i THEN 0
        ELSE IF n = 1 THEN e
        ELSE IF e <= Len(s) /\ s[e] = sep THEN Groups(s, e + 1, n - 1, sep, cls)
        ELSE 0

\* A match of (groups)-(\d+) that starts at index i: [ok, ip, len]
MatchAt(s, i, n, sep, cls) ==
    LET e == Groups(s, i, n, sep, cls)
        d == IF e = 0 \/ e > Len(s) THEN 0
             ELSE IF s[e] = "-" THEN RunEnd(s, e + 1, "d") ELSE 0
    IN  IF e # 0 /\ d > e + 1
        THEN [ok |-> TRUE, ip |-> SubSeq(s, i, e - 1), len |-> SubSeq(s, e + 1, d - 1)]
        ELSE [ok |-> FALSE, ip |-> <<>>, len |-> <<>>]

\* FindStringSubmatch: the leftmost match; ok is len(parts) == 3
FindSubmatch(s, n, sep, cls) ==
    LET starts == {i \in 1..Len(s) : MatchAt(s, i, n, sep, cls).ok}
    IN  IF starts = {} THEN [ok |-> FALSE, ip |-> <<>>, len |-> <<>>]
        ELSE MatchAt(s, CHOOSE i \in starts : \A j \in starts : i <= j, n, sep, cls)

\* v4SubnetRegex.FindStringSubmatch(s), for (\d+\.\d+\.\d+\.\d+)-(\d+)
v4SubnetRegex(s) == FindSubmatch(s, 4, ".", "d")

\* v6SubnetRegex.FindStringSubmatch(s), for eight \w+ separated by colons
v6SubnetRegex(s) == FindSubmatch(s, 8, ":", "w")

\* The fields of a string split at sep.
RECURSIVE Split(_, _)
Split(s, sep) ==
    LET at == {i \in 1..Len(s) : s[i] = sep}
        e  == CHOOSE i \in at : \A j \in at : i <= j
    IN  IF at = {} THEN <<s>>
        ELSE <<SubSeq(s, 1, e - 1)>> \o Split(SubSeq(s, e + 1, Len(s)), sep)

\* The value of a string of digits of the given base, capped at cap + 1.
RECURSIVE NumCapped(_, _, _, _)
NumCapped(s, acc, base, cap) ==
    IF s = <<>> THEN acc
    ELSE LET v == acc * base + (IF base = 10 THEN DigitVal(s[1]) ELSE HexVal(s[1]))
         IN  NumCapped(Tail(s), IF v > cap THEN cap + 1 ELSE v, base, cap)

\* net.ParseIP on what the regular expressions let through: four decimal
\* fields of at most three digits, no leading zero and at most 255, or eight
\* fields of one to four hexadecimal digits; nil otherwise.  IPv4 comes back
\* in 16-byte form.
ParseIP(s) ==
    LET f4 == Split(s, ".")
        f6 == Split(s, ":")
    IN  IF Len(f4) = 4
        THEN IF \A i \in 1..4 :
                   /\ Len(f4[i]) \in 1..3
                   /\ \A j \in 1..Len(f4[i]) : IsDigit(f4[i][j])
                   /\ (Len(f4[i]) > 1 => f4[i][1] # "0")
                   /\ NumCapped(f4[i], 0, 10, 255) <= 255
             THEN v4InV6Prefix \o [i \in 1..4 |-> NumCapped(f4[i], 0, 10, 255)]
             ELSE <<>>
        ELSE IF Len(f6) = 8
        THEN IF \A i \in 1..8 :
                   /\ Len(f6[i]) \in 1..4
                   /\ \A j \in 1..Len(f6[i]) : IsHex(f6[i][j])
             THEN [k \in 1..16 |->
                      LET v == NumCapped(f6[(k + 1) \div 2], 0, 16, 65535)
                      IN  IF k % 2 = 1 THEN v \div 256 ELSE v % 256]
             ELSE <<>>
        ELSE <<>>

\* strconv.ParseUint(s, 10, 5) of a string of digits: a range error above 31
ParseUint5(s) ==
    LET v == NumCapped(s, 0, 10, 31)
    IN  [err |-> v > 31, val |-> IF v > 31 THEN 31 ELSE v]

\* net.ParseCIDR(fmt.Sprintf("%s/%d", ip.String(), prefixLen)) for an ip that
\* net.ParseIP returned: ip.String() is dotted for an address with a 4-byte
\* form, and is IPv6 text otherwise; the prefix length must fit the family.
ParseCIDROfString(ip, prefixLen) ==
    LET a    == IF To4(ip) # <<>> THEN To4(ip) ELSE ip
        bits == 8 * Len(a)
    IN  IF prefixLen > bits THEN [err |-> TRUE, IP |-> <<>>, Mask |-> <<>>]
        ELSE [err |-> FALSE, IP |-> MaskIP(a, CIDRMask(prefixLen, bits)),
              Mask |-> CIDRMask(prefixLen, bits)]

\* What ParseSubnetKey returns: nil, or a pointer to a network
NilNet == [isNil |-> TRUE, IP |-> <<>>, Mask |-> <<>>]
PtrTo(c) == [isNil |-> FALSE, IP |-> c.IP, Mask |-> c.Mask]

\* One branch of ParseSubnetKey on the match m: done says the branch
\* returned, ret what.  "if err != nil { return cidr }" returns the nil
\* cidr of a failed net.ParseCIDR; a network that parsed is dropped.
KeyBranch(m) ==
    LET snIp == ParseIP(m.ip)
        n    == ParseUint5(m.len)
        c    == ParseCIDROfString(snIp, n.val)
    IN  IF ~m.ok THEN [done |-> FALSE, ret |-> NilNet]
        ELSE IF snIp = <<>> THEN [done |-> TRUE, ret |-> NilNet]
        ELSE IF n.err THEN [done |-> FALSE, ret |-> NilNet]
        ELSE IF c.err THEN [done |-> TRUE, ret |-> NilNet]
        ELSE [done |-> TRUE, ret |-> NilNet]

\* The branch with the test the other way round: "if err == nil".
KeyBranchReturningCidr(m) ==
    LET snIp == ParseIP(m.ip)
        n    == ParseUint5(m.len)
        c    == ParseCIDROfString(snIp, n.val)
    IN  IF ~m.ok THEN [done |-> FALSE, ret |-> NilNet]
        ELSE IF snIp = <<>> THEN [done |-> TRUE, ret |-> NilNet]
        ELSE IF n.err THEN [done |-> FALSE, ret |-> NilNet]
        ELSE IF c.err THEN [done |-> TRUE, ret |-> NilNet]
        ELSE [done |-> TRUE, ret |-> PtrTo(c)]

ParseSubnetKeyReturningCidr(s) ==
    LET b4 == KeyBranchReturningCidr(v4SubnetRegex(s))
        b6 == KeyBranchReturningCidr(v6SubnetRegex(s))
    IN  IF b4.done THEN b4.ret
        ELSE IF b6.done THEN b6.ret
        ELSE NilNet

ParseSubnetKey(s) ==
    LET b4 == KeyBranch(v4SubnetRegex(s))
        b6 == KeyBranch(v6SubnetRegex(s))
    IN  IF b4.done THEN b4.ret
        ELSE IF b6.done THEN b6.ret
        ELSE NilNet

-----------------------------------------------------------------------------
(* The documents ParseConfig is given.                                     *)

\* A network as json.Unmarshal leaves it in cfg.Network: net.IPNet has no
\* decoder of its own, so the address is decoded by net.IP's UnmarshalText,
\* which is net.ParseIP and returns 16 bytes for either family, and the mask
\* is the bytes written (4 for IPv4, 16 for IPv6).  The address is the
\* network's base address.
MkNet(seed, p) ==
    LET m == CIDRMask(p, 8 * Len(seed))
    IN  [IP |-> To16(MaskIP(seed, m)), Mask |-> m]

V4Seeds == {<<0, 0, 0, 0>>, <<10, 100, 200, 77>>, <<192, 168, 0, 0>>}
V4Prefixes == {0, 8, 16, 22, 23, 24, 28, 29, 30, 32}
V6Seeds == {<<32, 1, 13, 184, 171, 205, 0, 18, 128, 0, 0, 0, 0, 0, 0, 1>>,
            <<253, 0, 18, 52, 86, 120, 154, 188, 222, 240, 1, 2, 3, 4, 5, 255>>}
V6Prefixes == {8, 64, 118, 119, 124, 125, 126, 128}
\* ::ffff:10.0.0.0/104, an IPv4-mapped network written in IPv6 form
MappedNet == [IP |-> v4InV6Prefix \o <<10, 0, 0, 0>>, Mask |-> CIDRMask(104, 128)]

Networks ==
    {MkNet(s, p) : s \in V4Seeds, p \in V4Prefixes}
    \cup {MkNet(s, p) : s \in V6Seeds, p \in V6Prefixes}
    \cup {MappedNet}

AddrBits(n) == IF ProtocolByIPNet(n) = ProtocolIPv4 THEN 32 ELSE 128
ZeroOf(n) == IF ProtocolByIPNet(n) = ProtocolIPv4 THEN IPv4zero ELSE IPv6zero
\* The network's prefix length within its family's address width.
FamilyPrefix(n) == PrefixLenByIPNet(n) - (8 * Len(n.Mask) - AddrBits(n))

\* The address a quarter (k = 1) or three quarters (k = 3) into the network:
\* inside it and on the grid of every SubnetLen >= prefix + 2.
Quarter(n, k) ==
    LET q == Lsh1(AddrBits(n) - FamilyPrefix(n) - 2)
        b == To16(n.IP)
    IN  IF FamilyPrefix(n) + 2 > AddrBits(n) THEN b
        ELSE IF k = 1 THEN NextNIP(b, q)
        ELSE NextNIP(NextNIP(NextNIP(b, q), q), q)

\* The last address of the network: inside it, and off every subnet grid.
LastOf(n) ==
    To16(CIDRLastIP([n EXCEPT !.IP = IF Len(n.Mask) = 4 THEN To4(n.IP) ELSE n.IP]))

\* An address outside the network: the base with its top bit flipped, or for
\* a /0 an address of the other family.
OutsideOf(n) ==
    LET b == To16(n.IP)
        i == IF ProtocolByIPNet(n) = ProtocolIPv4 THEN 13 ELSE 1
    IN  IF FamilyPrefix(n) = 0
        THEN IF ProtocolByIPNet(n) = ProtocolIPv4
             THEN <<253, 0>> \o Zeros(13) \o <<1>>
             ELSE v4InV6Prefix \o <<10, 0, 0, 1>>
        ELSE [b EXCEPT ![i] = (b[i] + 128) % 256]

MinChoices(n) == {<<>>, ZeroOf(n), Quarter(n, 1), Quarter(n, 3), LastOf(n), OutsideOf(n)}
MaxChoices(n) == {<<>>, ZeroOf(n), To16(n.IP), Quarter(n, 1), LastOf(n), OutsideOf(n)}

SubnetLenChoices(n) ==
    {0, FamilyPrefix(n) + 1, FamilyPrefix(n) + 2}
    \cup (IF ProtocolByIPNet(n) = ProtocolIPv4 THEN {24, 30, 31} ELSE {120, 126, 127})

NoBackend == [kind |-> "absent", Type |-> ""]
Backends ==
    {NoBackend,
     [kind |-> "object", Type |-> "vxlan"],
     [kind |-> "object", Type |-> ""],
     [kind |-> "null", Type |-> ""],
     [kind |-> "badtype", Type |-> ""],
     [kind |-> "nonobject", Type |-> ""]}

Doc(n, l, mn, mx, be) ==
    [Network |-> n, SubnetMin |-> mn, SubnetMax |-> mx, SubnetLen |-> l,
     BackendType |-> "", Backend |-> be]

\* Every combination of bounds without a payload, and every payload with
\* explicit bounds inside the network, with default bounds, and with a
\* SubnetMin outside the network.
Docs ==
    UNION {{Doc(n, l, mn, mx, NoBackend) :
                l \in SubnetLenChoices(n), mn \in MinChoices(n), mx \in MaxChoices(n)}
           \cup {Doc(n, l, mn, Quarter(n, 1), be) :
                l \in SubnetLenChoices(n), mn \in {Quarter(n, 1), OutsideOf(n)},
                be \in Backends}
           \cup {Doc(n, l, ZeroOf(n), ZeroOf(n), be) :
                l \in SubnetLenChoices(n), be \in Backends} : n \in Networks}

-----------------------------------------------------------------------------
(* ParseConfig as a state machine: pc is "decoded" after json.Unmarshal,   *)
(* "bounds" after the SubnetLen resolution, "backend" after the range      *)
(* bounds, and at its end "returned" (cfg, nil), "error" (nil, err) or     *)
(* "panic".                                                                *)

CodecIdle ==
    /\ cpc = "idle" /\ snA = <<>> /\ snB = <<>> /\ keyA = <<>> /\ keyB = <<>>
    /\ str = <<>> /\ parsed = <<>>

LeaseIdle == leases = {} /\ agent = <<>> /\ clock = 0

ConfigIdle == pc = "idle" /\ in = <<>> /\ cfg = <<>> /\ err = ""

ConfigInit ==
    /\ in \in Docs
    /\ cfg = in
    /\ pc = "decoded"
    /\ err = ""
    /\ CodecIdle
    /\ LeaseIdle

Fail(e) ==
    /\ pc' = (IF e = Panic THEN "panic" ELSE "error")
    /\ err' = e
    /\ UNCHANGED cfg

ResolveSubnetLenIPv4 ==
    /\ pc = "decoded"
    /\ ProtocolByIPNet(cfg.Network) = ProtocolIPv4
    /\ LET r == SubnetLenIPv4(cfg)
       IN  IF r.err # "" THEN Fail(r.err)
           ELSE /\ cfg' = [cfg EXCEPT !.SubnetLen = r.len]
                /\ pc' = "bounds"
                /\ UNCHANGED err
    /\ UNCHANGED <<in, codecVars, leaseVars>>

ResolveSubnetLenIPv6 ==
    /\ pc = "decoded"
    /\ ProtocolByIPNet(cfg.Network) # ProtocolIPv4
    /\ LET r == SubnetLenIPv6(cfg)
       IN  IF r.err # "" THEN Fail(r.err)
           ELSE /\ cfg' = [cfg EXCEPT !.SubnetLen = r.len]
                /\ pc' = "bounds"
                /\ UNCHANGED err
    /\ UNCHANGED <<in, codecVars, leaseVars>>

ComputeBoundsIPv4 ==
    /\ pc = "bounds"
    /\ ProtocolByIPNet(cfg.Network) = ProtocolIPv4
    /\ LET r == RangeBoundsIPv4(cfg)
       IN  IF r.err # "" THEN Fail(r.err)
           ELSE /\ cfg' = [cfg EXCEPT !.SubnetMin = r.min, !.SubnetMax = r.max]
                /\ pc' = "backend"
                /\ UNCHANGED err
    /\ UNCHANGED <<in, codecVars, leaseVars>>

ComputeBoundsIPv6 ==
    /\ pc = "bounds"
    /\ ProtocolByIPNet(cfg.Network) # ProtocolIPv4
    /\ LET r == RangeBoundsIPv6(cfg)
       IN  IF r.err # "" THEN Fail(r.err)
           ELSE /\ cfg' = [cfg EXCEPT !.SubnetMin = r.min, !.SubnetMax = r.max]
                /\ pc' = "backend"
                /\ UNCHANGED err
    /\ UNCHANGED <<in, codecVars, leaseVars>>

ExtractBackendType ==
    /\ pc = "backend"
    /\ LET r == parseBackendType(cfg.Backend)
       IN  IF r.err # "" THEN Fail(r.err)
           ELSE /\ cfg' = [cfg EXCEPT !.BackendType = r.bt]
                /\ pc' = "returned"
                /\ UNCHANGED err
    /\ UNCHANGED <<in, codecVars, leaseVars>>

ConfigNext ==
    \/ ResolveSubnetLenIPv4
    \/ ResolveSubnetLenIPv6
    \/ ComputeBoundsIPv4
    \/ ComputeBoundsIPv6
    \/ ExtractBackendType

ConfigSpec == ConfigInit /\ [][ConfigNext]_vars


-----------------------------------------------------------------------------
(* The codec as a state machine: two subnets are encoded, and the key of   *)
(* the first is decoded, as it is or malformed.                            *)

Sn4(a, b, c, d, p) == [IP |-> <<a, b, c, d>>, Mask |-> CIDRMask(p, 32)]
Sn6(hi, g4, lo, p) ==
    [IP |-> <<hi \div 256, hi % 256>> \o Zeros(4) \o <<g4 \div 256, g4 % 256>>
            \o Zeros(6) \o <<lo \div 256, lo % 256>>,
     Mask |-> CIDRMask(p, 128)]

Subnets ==
    {Sn4(0, 0, 0, 0, 0), Sn4(10, 0, 0, 0, 8), Sn4(10, 16, 0, 0, 16),
     Sn4(9, 255, 0, 0, 16), Sn4(100, 64, 0, 0, 16), Sn4(192, 168, 1, 0, 24),
     Sn4(192, 168, 2, 0, 24), Sn4(192, 168, 10, 0, 24), Sn4(10, 1, 2, 128, 30),
     Sn4(255, 255, 255, 255, 32)}
    \cup
    {Sn6(0, 0, 0, 0), Sn6(0, 0, 0, 128), Sn6(64768, 0, 0, 8),
     Sn6(64768, 9, 0, 64), Sn6(64768, 16, 0, 64), Sn6(64768, 10, 0, 64),
     Sn6(8193, 3512, 0, 31),
     [IP |-> [i \in 1..16 |-> 255], Mask |-> CIDRMask(128, 128)]}

\* The ways a key is malformed: the separator dropped or written as a
\* slash, path segments before, after or around the key, and a prefix
\* length that is no number, a number followed by a letter, or 999.
Malformations ==
    {"nosep", "slash", "pathbefore", "pathafter", "patharound",
     "nonnumeric", "letterafter", "outofrange"}

Malform(k, m) ==
    LET dash == CHOOSE i \in 1..Len(k) : k[i] = "-"
        path == <<"s", "u", "b", "n", "e", "t", "s", "/">>
    IN  CASE m = "nosep"       -> SubSeq(k, 1, dash - 1) \o SubSeq(k, dash + 1, Len(k))
          [] m = "slash"       -> ReplaceAll(k, "-", "/")
          [] m = "pathbefore"  -> path \o k
          [] m = "pathafter"   -> k \o <<"/", "x">>
          [] m = "patharound"  -> path \o k \o <<"/", "x">>
          [] m = "nonnumeric"  -> SubSeq(k, 1, dash) \o <<"x">>
          [] m = "letterafter" -> SubSeq(k, 1, dash) \o <<"1", "x">>
          [] m = "outofrange"  -> SubSeq(k, 1, dash) \o <<"9", "9", "9">>

CodecInit ==
    /\ snA \in Subnets
    /\ snB \in Subnets
    /\ cpc = "start"
    /\ keyA = <<>> /\ keyB = <<>> /\ str = <<>>
    /\ parsed = NilNet
    /\ ConfigIdle
    /\ LeaseIdle

Encode ==
    /\ cpc = "start"
    /\ keyA' = MakeSubnetKey(snA)
    /\ keyB' = MakeSubnetKey(snB)
    /\ cpc' = "encoded"
    /\ UNCHANGED <<snA, snB, str, parsed, cfgVars, leaseVars>>

DecodeKey ==
    /\ cpc = "encoded"
    /\ str' = keyA
    /\ parsed' = ParseSubnetKey(keyA)
    /\ cpc' = "roundtrip"
    /\ UNCHANGED <<snA, snB, keyA, keyB, cfgVars, leaseVars>>

DecodeMalformed ==
    /\ cpc = "encoded"
    /\ \E m \in Malformations :
          /\ str' = Malform(keyA, m)
          /\ parsed' = ParseSubnetKey(Malform(keyA, m))
    /\ cpc' = "malformed"
    /\ UNCHANGED <<snA, snB, keyA, keyB, cfgVars, leaseVars>>

CodecNext == Encode \/ DecodeKey \/ DecodeMalformed

CodecSpec == CodecInit /\ [][CodecNext]_vars


-----------------------------------------------------------------------------
(* The lease manager.  Its source declares the Manager interface and the   *)
(* errors; the backends implementing AcquireLease are not part of the      *)
(* package, so the protocol is modelled as the design describes it: the    *)
(* agent reads the store to choose a candidate subnet, then asks the store *)
(* for an atomic create-if-absent, retrying other candidates, a bounded    *)
(* number of times, when it was not asked for one subnet.  A lease is      *)
(* [subnet, owner, asof, live]; an expired lease stays in leases with      *)
(* live = FALSE.  A request is a subnet, or 0 for any.                     *)

NumAgents == 3
NumLeaseSubnets == 2
MaxTries == 2
MaxExpiries == 1

ErrLeaseTaken  == "subnet: lease already taken"
ErrNoMoreTries == "subnet: no more tries"

Agents == 1..NumAgents
LeaseSubnets == 1..NumLeaseSubnets

Held(ls, sn) == \E l \in ls : l.subnet = sn /\ l.live

\* The store creates the key without looking whether it exists.
CreateBlind(ls, sn) == TRUE

\* The store's atomic create-if-absent: whether the create of sn succeeds
CreateIfAbsent(ls, sn) == ~Held(ls, sn)

LeaseInit ==
    /\ leases = {}
    /\ agent = [a \in Agents |->
                   [pc |-> "idle", req |-> 0, cand |-> 0, tries |-> 0, result |-> ""]]
    /\ clock = 0
    /\ ConfigIdle
    /\ CodecIdle

\* AcquireLease is called, for one subnet (req > 0) or for any (req = 0).
AcquireLease(a) ==
    /\ agent[a].pc = "idle"
    /\ \E r \in {0} \cup LeaseSubnets :
          agent' = [agent EXCEPT ![a].pc = "choose", ![a].req = r]
    /\ UNCHANGED <<leases, clock, cfgVars, codecVars>>

\* The agent reads the leases and settles on a candidate.
ChooseCandidate(a) ==
    /\ agent[a].pc = "choose"
    /\ IF agent[a].req # 0
       THEN IF Held(leases, agent[a].req)
            THEN agent' = [agent EXCEPT ![a].pc = "done", ![a].result = ErrLeaseTaken]
            ELSE agent' = [agent EXCEPT ![a].pc = "reserve", ![a].cand = agent[a].req]
       ELSE IF \A sn \in LeaseSubnets : Held(leases, sn)
            THEN agent' = [agent EXCEPT ![a].pc = "done", ![a].result = ErrNoMoreTries]
            ELSE \E sn \in LeaseSubnets :
                    /\ ~Held(leases, sn)
                    /\ agent' = [agent EXCEPT ![a].pc = "reserve", ![a].cand = sn]
    /\ UNCHANGED <<leases, clock, cfgVars, codecVars>>

\* The store is asked to create the candidate's lease.
Reserve(a) ==
    /\ agent[a].pc = "reserve"
    /\ IF CreateIfAbsent(leases, agent[a].cand)
       THEN /\ leases' = leases \cup
                  {[subnet |-> agent[a].cand, owner |-> a, asof |-> clock + 1, live |-> TRUE]}
            /\ clock' = clock + 1
            /\ agent' = [agent EXCEPT ![a].pc = "done", ![a].result = "ok"]
       ELSE /\ UNCHANGED <<leases, clock>>
            /\ IF agent[a].req # 0
               THEN agent' = [agent EXCEPT ![a].pc = "done", ![a].result = ErrLeaseTaken]
               ELSE IF agent[a].tries + 1 >= MaxTries
               THEN agent' = [agent EXCEPT ![a].pc = "done", ![a].result = ErrNoMoreTries]
               ELSE agent' = [agent EXCEPT ![a].pc = "choose",
                                           ![a].tries = agent[a].tries + 1]
    /\ UNCHANGED <<cfgVars, codecVars>>

\* A lease's Expiration passes without a renewal.
Expire ==
    /\ Cardinality({l \in leases : ~l.live}) < MaxExpiries
    /\ \E l \in leases :
          /\ l.live
          /\ leases' = (leases \ {l}) \cup {[l EXCEPT !.live = FALSE]}
    /\ UNCHANGED <<agent, clock, cfgVars, codecVars>>

LeaseNext ==
    \/ \E a \in Agents : AcquireLease(a)
    \/ \E a \in Agents : ChooseCandidate(a)
    \/ \E a \in Agents : Reserve(a)
    \/ Expire

LeaseSpec == LeaseInit /\ [][LeaseNext]_vars


-----------------------------------------------------------------------------
(* Vocabulary of the properties.                                           *)

IsIPv4Net(n) == ProtocolByIPNet(n) = ProtocolIPv4

\* a <= b as addresses
AddrLE(a, b) == CmpBytes(To16(a), To16(b)) <= 0
AddrLess(a, b) == CmpBytes(To16(a), To16(b)) < 0

\* What the SubnetLen resolution makes of the document.
Resolution(d) == IF IsIPv4Net(d.Network) THEN SubnetLenIPv4(d) ELSE SubnetLenIPv6(d)

\* The document passes the SubnetLen resolution and the range bounds.
ValidationPasses(d) ==
    LET c == [d EXCEPT !.SubnetLen = Resolution(d).len]
    IN  /\ Resolution(d).err = ""
        /\ (IF IsIPv4Net(d.Network) THEN RangeBoundsIPv4(c) ELSE RangeBoundsIPv6(c)).err = ""

\* The per-host subnet size 2^(bits - SubnetLen) of a Config.
SubnetSize(c) == Lsh1(AddrBits(c.Network) - c.SubnetLen)

\* The bound was written in the document: it is not the all-zero address.
Explicit(ip, n) == ~IPEqual(ip, ZeroOf(n))

\* ip is a multiple of the subnet size: masking it to SubnetLen changes nothing.
Aligned(ip, c) ==
    LET x == IF IsIPv4Net(c.Network) THEN To4(ip) ELSE ip
    IN  x # <<>> /\ MaskIP(x, CIDRMask(c.SubnetLen, AddrBits(c.Network))) = x

ParseConfigEnded == pc \in {"returned", "error", "panic"}

-----------------------------------------------------------------------------
(* C1.  Round trip of the codec: ParseSubnetKey(MakeSubnetKey(x)) is a     *)
(* non-nil network with the address and the prefix length of x.            *)
C1_RoundTrip ==
    cpc = "roundtrip" =>
        /\ ~parsed.isNil
        /\ IPEqual(parsed.IP, snA.IP)
        /\ MaskSize(parsed.Mask).ones = MaskSize(snA.Mask).ones

(* C2.  Default range bounds: when SubnetMin and SubnetMax are the         *)
(* all-zero address and the SubnetLen resolution passes, the range bounds  *)
(* pass too, with SubnetMin = Network.address + 2^(bits-SubnetLen) and     *)
(* SubnetMax = lastAddress(Network) - 2^(bits-SubnetLen), both inside      *)
(* Network.                                                                *)
C2_DefaultBounds ==
    ( /\ pc \notin {"decoded", "bounds"}
      /\ ~Explicit(in.SubnetMin, in.Network)
      /\ ~Explicit(in.SubnetMax, in.Network)
      /\ Resolution(in).err = "" )
    => /\ pc \in {"backend", "returned"}
       /\ IPEqual(cfg.SubnetMin, NextNIP(To16(in.Network.IP), SubnetSize(cfg)))
       /\ IPEqual(cfg.SubnetMax, PreviousNIP(LastOf(in.Network), SubnetSize(cfg)))
       /\ Contains(cfg.Network, cfg.SubnetMin)
       /\ Contains(cfg.Network, cfg.SubnetMax)

(* C3.  Explicit bounds are validated: a Config is returned only if every  *)
(* explicitly supplied SubnetMin and SubnetMax lies inside Network and is  *)
(* a multiple of the subnet size 2^(bits-SubnetLen).                       *)
C3_ExplicitBoundsValidated ==
    pc = "returned" =>
        /\ Explicit(in.SubnetMin, in.Network) =>
              Contains(cfg.Network, in.SubnetMin) /\ Aligned(in.SubnetMin, cfg)
        /\ Explicit(in.SubnetMax, in.Network) =>
              Contains(cfg.Network, in.SubnetMax) /\ Aligned(in.SubnetMax, cfg)

(* C4.  Default SubnetLen: with no SubnetLen in the document, an IPv4      *)
(* network of prefix length p resolves to 24 if p <= 22 and to p+2 if      *)
(* 22 < p <= 28, and fails as too small if p > 28; an IPv6 network         *)
(* resolves to 120 if p <= 118 and to p+2 if 118 < p <= 124, and fails if  *)
(* p > 124.                                                                *)
C4_DefaultSubnetLen ==
    (in.SubnetLen = 0 /\ pc # "decoded") =>
        LET p == PrefixLenByIPNet(in.Network)
            resolved(l) ==
                /\ cfg.SubnetLen = l
                /\ err \notin {ErrTooSmall4, ErrTooSmall6, ErrFourSubnets,
                               ErrSubnetLenMax4, ErrSubnetLenMax6}
        IN  IF IsIPv4Net(in.Network)
            THEN /\ p <= 22 => resolved(24)
                 /\ (22 < p /\ p <= 28) => resolved(p + 2)
                 /\ p > 28 => pc = "error" /\ err = ErrTooSmall4
            ELSE /\ p <= 118 => resolved(120)
                 /\ (118 < p /\ p <= 124) => resolved(p + 2)
                 /\ p > 124 => pc = "error" /\ err = ErrTooSmall6

C4_Witness ==
    /\ pc = "returned"
    /\ in.SubnetLen = 0
    /\ IsIPv4Net(in.Network)
    /\ PrefixLenByIPNet(in.Network) = 23
    /\ cfg.SubnetLen = 25

(* C5.  Every Config that is returned has                                  *)
(* prefixLen(Network) + 2 <= SubnetLen <= maxLen, maxLen being 30 for IPv4 *)
(* and 126 for IPv6, and a document whose SubnetLen breaks either bound    *)
(* ends in an error.                                                       *)
C5_SubnetLenInvariant ==
    LET p      == PrefixLenByIPNet(in.Network)
        maxLen == IF IsIPv4Net(in.Network) THEN 30 ELSE 126
    IN  /\ pc = "returned" => (p + 2 <= cfg.SubnetLen /\ cfg.SubnetLen <= maxLen)
        /\ ( /\ pc # "decoded"
             /\ in.SubnetLen > 0
             /\ (in.SubnetLen > maxLen \/ in.SubnetLen < p + 2) )
           => pc = "error" /\ err \in {ErrSubnetLenMax4, ErrSubnetLenMax6, ErrFourSubnets}

C5_Witness ==
    /\ pc = "returned"
    /\ in.SubnetLen = 30
    /\ cfg.SubnetLen = 30
    /\ PrefixLenByIPNet(in.Network) = 28

(* C6.  Lease exclusivity: no subnet is held by two live leases at once;   *)
(* and of two agents whose calls for the same subnet have both ended,      *)
(* the subnet not having been leased to a third agent nor a lease of it    *)
(* having expired, one got the lease and the other ErrLeaseTaken.          *)
C6_LeaseExclusive ==
    /\ \A l1, l2 \in leases :
          (l1.live /\ l2.live /\ l1.subnet = l2.subnet) => l1 = l2
    /\ \A a, b \in DOMAIN agent :
          ( /\ a # b
            /\ agent[a].pc = "done" /\ agent[b].pc = "done"
            /\ agent[a].req # 0 /\ agent[a].req = agent[b].req
            /\ \A l \in leases :
                  l.subnet = agent[a].req => (l.live /\ l.owner \in {a, b}) )
          => {agent[a].result, agent[b].result} = {"ok", ErrLeaseTaken}

C6_Witness ==
    \E a, b \in DOMAIN agent :
        /\ a # b
        /\ agent[a].pc = "done" /\ agent[b].pc = "done"
        /\ agent[a].req # 0 /\ agent[a].req = agent[b].req
        /\ agent[a].result = "ok" /\ agent[b].result = ErrLeaseTaken
        /\ agent[b].cand = agent[b].req

(* C7.  Backend type extraction: a Config returned for a document without  *)
(* a Backend payload has BackendType "udp"; one returned for a well-formed *)
(* payload has the payload's Type; a malformed payload never yields a      *)
(* Config, and is a decode error once the network validation has passed.   *)
C7_BackendType ==
    LET malformed == in.Backend.kind \in {"badtype", "nonobject"}
    IN  /\ pc = "returned" =>
              /\ ~malformed
              /\ in.Backend.kind = "absent" => cfg.BackendType = "udp"
              /\ in.Backend.kind # "absent" => cfg.BackendType = in.Backend.Type
        /\ (malformed /\ ParseConfigEnded) => pc = "error"
        /\ (malformed /\ ParseConfigEnded /\ ValidationPasses(in)) => err = ErrBackend

C7_Witness ==
    /\ pc = "error"
    /\ err = ErrBackend
    /\ in.Backend.kind = "badtype"
    /\ cfg.BackendType = ""

(* C8.  ParseSubnetKey returns nil for a malformed key: one without the    *)
(* '-' separator, with path segments around the key, or with a prefix      *)
(* length that is not a number or is out of range.                         *)
C8_MalformedKeyIsNil == cpc = "malformed" => parsed.isNil

\* A key inside path segments, where the expression matched and the address
\* and the prefix length parsed.
C8_Witness ==
    /\ cpc = "malformed"
    /\ str = Malform(keyA, "patharound")
    /\ v4SubnetRegex(str).ok
    /\ ParseIP(v4SubnetRegex(str).ip) # <<>>
    /\ ~ParseUint5(v4SubnetRegex(str).len).err
    /\ parsed.isNil

(* C9.  MakeSubnetKey is order-preserving: for two subnets of one family   *)
(* and one prefix length, the address of a is less than the address of b   *)
(* if and only if the key of a is less than the key of b; and no key       *)
(* contains '/'.                                                           *)
C9_OrderPreserving ==
    cpc # "start" =>
        /\ ( /\ (To4(snA.IP) # <<>>) = (To4(snB.IP) # <<>>)
             /\ MaskSize(snA.Mask).ones = MaskSize(snB.Mask).ones )
           => (AddrLess(snA.IP, snB.IP) <=> StrLess(keyA, keyB))
        /\ \A i \in 1..Len(keyA) : keyA[i] # "/"

(* C9, amended.  The keys of two IPv6 subnets of one prefix length are     *)
(* ordered as their addresses; and no key, of either family, contains '/'. *)
C9_OrderPreservingIPv6 ==
    cpc # "start" =>
        /\ ( /\ To4(snA.IP) = <<>> /\ To4(snB.IP) = <<>>
             /\ MaskSize(snA.Mask).ones = MaskSize(snB.Mask).ones )
           => (AddrLess(snA.IP, snB.IP) <=> StrLess(keyA, keyB))
        /\ \A i \in 1..Len(keyA) : keyA[i] # "/"

C9_Witness ==
    /\ cpc = "encoded"
    /\ To4(snA.IP) = <<>> /\ To4(snB.IP) = <<>>
    /\ MaskSize(snA.Mask).ones = 64 /\ MaskSize(snB.Mask).ones = 64
    /\ AddrLess(snA.IP, snB.IP)
    /\ StrLess(keyA, keyB)

(* C10.  Non-empty range: every Config that is returned has                *)
(* SubnetMin <= SubnetMax.                                                 *)
C10_NonEmptyRange == pc = "returned" => AddrLE(cfg.SubnetMin, cfg.SubnetMax)

(* C10, amended.  Every Config that is returned has SubnetMin and          *)
(* SubnetMax inside Network; their order is not checked.                   *)
C10_BoundsInNetwork ==
    pc = "returned" =>
        /\ Contains(cfg.Network, cfg.SubnetMin)
        /\ Contains(cfg.Network, cfg.SubnetMax)

C10_Witness ==
    /\ pc = "returned"
    /\ Explicit(in.SubnetMin, in.Network)
    /\ Explicit(in.SubnetMax, in.Network)
    /\ ~AddrLE(cfg.SubnetMin, cfg.SubnetMax)

=============================================================================
